---------------------------- MODULE Spec2Model ----------------------------
(***************************************************************************)
(* Model of scholar_scraping.py: the pagination loop (main, skip_n_pages,  *)
(* load_n_pages, next_page), the per-page dispatch (load_10_researchers),  *)
(* the per-author save routine (create_profile, new_folder) and the two    *)
(* citation aggregators.                                                   *)
(*                                                                         *)
(* Strings are sequences of one-character strings (a few fixed prefixes    *)
(* are kept as one element).  A Python dict is a function whose DOMAIN is  *)
(* the set of keys present, so a KeyError is a key outside the DOMAIN; an  *)
(* ordered dict of year -> count is a sequence of <<year, count>> pairs.   *)
(***************************************************************************)
EXTENDS Integers, Sequences, FiniteSets, TLC

(***************************************************************************)
(* Bounds of the model.                                                    *)
(***************************************************************************)
MaxSkip == 2
MaxPages == 2
MaxMatches == 3
MaxSeriesLen == 12
MaxThreshold == 2

(***************************************************************************)
(* Program constants.                                                      *)
(***************************************************************************)
GOOGLE_SCHOLAR_URL_PREFIX == "https://scholar.google.com/"
NAV_HOST == "https://scholar.google.co.il"
YearsWindow == 10
Threshold100 == 100
Threshold500 == 500
CurrentYear == 2024

(***************************************************************************)
(* String helpers (Python str operations on sequences of characters).      *)
(***************************************************************************)
StartsWith(s, sub) ==
    /\ Len(sub) <= Len(s)
    /\ SubSeq(s, 1, Len(sub)) = sub

\* Python: sub in s
Contains(s, sub) ==
    \E k \in 0..(Len(s) - Len(sub)) : SubSeq(s, k + 1, k + Len(sub)) = sub

\* Python: s[k:]
Drop(s, k) == IF k >= Len(s) THEN <<>> ELSE SubSeq(s, k + 1, Len(s))

\* mutant of Slice1m3: s[1:-2]
Slice1m3_LastTwo(s) == IF Len(s) - 2 < 2 THEN <<>> ELSE SubSeq(s, 2, Len(s) - 2)

\* Python: s[1:-3]
Slice1m3(s) == IF Len(s) - 3 < 2 THEN <<>> ELSE SubSeq(s, 2, Len(s) - 3)

RECURSIVE StrReplace(_, _, _)
\* Python: s.replace(old, new), leftmost non-overlapping occurrences
StrReplace(s, old, new) ==
    IF s = <<>> THEN <<>>
    ELSE IF StartsWith(s, old) THEN new \o StrReplace(Drop(s, Len(old)), old, new)
    ELSE <<Head(s)>> \o StrReplace(Tail(s), old, new)

\* Python: s.index(sub); 0 stands for the ValueError of a missing substring
\* (positions are 1-based here)
StrIndex(s, sub) ==
    IF Contains(s, sub)
    THEN CHOOSE k \in 1..Len(s) :
            /\ StartsWith(Drop(s, k - 1), sub)
            /\ \A m \in 1..(k - 1) : ~StartsWith(Drop(s, m - 1), sub)
    ELSE 0

AFTER == <<"a", "f", "t", "e", "r">>
ESC_EQ == <<"\\", "x", "3", "d">>
ESC_AMP == <<"\\", "x", "2", "6">>
USER_EQ == <<"u", "s", "e", "r", "=">>

(***************************************************************************)
(* Citation Aggregator.                                                    *)
(***************************************************************************)
\* citations.values() of an ordered year -> count dict
DictValues(series) == [k \in 1..Len(series) |-> series[k][2]]

RECURSIVE First10Loop(_, _, _, _)
\* the for loop of get_num_of_first_10_years_citations from position k on
First10Loop(vals, k, total, i) ==
    IF k > Len(vals) THEN total
    ELSE IF i + 1 >= YearsWindow THEN total + vals[k]
    ELSE First10Loop(vals, k + 1, total + vals[k], i + 1)

RECURSIVE First10Loop_OffByOne(_, _, _, _)
\* mutant: the loop breaks on i > 10
First10Loop_OffByOne(vals, k, total, i) ==
    IF k > Len(vals) THEN total
    ELSE IF i + 1 > YearsWindow THEN total + vals[k]
    ELSE First10Loop_OffByOne(vals, k + 1, total + vals[k], i + 1)

\* mutant of get_num_of_first_10_years_citations: eleven values are summed
first_10_years_off_by_one(vals) == First10Loop_OffByOne(vals, 1, 0, 0)

get_num_of_first_10_years_citations(vals) == First10Loop(vals, 1, 0, 0)

RECURSIVE SinceLoop(_, _, _, _, _, _)
\* the for loop of get_num_of_citations_since_n_citations from position k on
SinceLoop(vals, n, k, check, total, i) ==
    IF k > Len(vals) THEN total
    ELSE IF check >= n
         THEN IF i + 1 >= YearsWindow THEN total + vals[k]
              ELSE SinceLoop(vals, n, k + 1, check, total + vals[k], i + 1)
         ELSE SinceLoop(vals, n, k + 1, check + vals[k], total, i)

RECURSIVE SinceLoop_Inclusive(_, _, _, _, _, _)
\* mutant: the value that takes the prefix sum to n is counted as well
SinceLoop_Inclusive(vals, n, k, check, total, i) ==
    IF k > Len(vals) THEN total
    ELSE IF check + vals[k] >= n
         THEN IF i + 1 >= YearsWindow THEN total + vals[k]
              ELSE SinceLoop_Inclusive(vals, n, k + 1, check + vals[k],
                                       total + vals[k], i + 1)
         ELSE SinceLoop_Inclusive(vals, n, k + 1, check + vals[k], total, i)

\* mutant of get_num_of_citations_since_n_citations
since_n_citations_inclusive(vals, n) == SinceLoop_Inclusive(vals, n, 1, 0, 0, 0)

get_num_of_citations_since_n_citations(vals, n) == SinceLoop(vals, n, 1, 0, 0, 0)

(***************************************************************************)
(* The outside world: listing pages, author profiles, provider failures.   *)
(***************************************************************************)
NoPath == "NoPath"
NoError == "NoError"
NoValue == "NoValue"

\* captured groups of REGEX_TO_FIND_NEXT_PAGE, as they stand in the page
MatchAfter ==
    <<"'", "/", "a", "f", "t", "e", "r", "\\", "x", "3", "d", "1",
      "\\", "x", "2", "6", "s", "'", "\"", " ">>
MatchAfter2 ==
    <<"'", "/", "a", "f", "t", "e", "r", "\\", "x", "3", "d", "2", "'", "\"", " ">>
MatchBefore ==
    <<"'", "/", "b", "e", "f", "o", "r", "e", "\\", "x", "3", "d", "0", "'", "\"", " ">>

\* captured groups of REGEX_TO_FIND_AUTHOR_NAME
HrefU1 == <<"/", "c", "?", "u", "s", "e", "r", "=", "i", "1">>
HrefU2 == <<"/", "c", "?", "u", "s", "e", "r", "=", "i", "2">>

\* a listing page, reduced to what re.findall returns on it, in document order
Pages ==
    { [authors |-> <<HrefU1, HrefU2>>, nav |-> <<MatchBefore, MatchAfter>>],
      [authors |-> <<HrefU1, HrefU1>>, nav |-> <<MatchAfter, MatchBefore, MatchAfter2>>],
      [authors |-> <<HrefU2>>, nav |-> <<MatchAfter>>],
      [authors |-> <<HrefU2>>, nav |-> <<MatchBefore>>],
      [authors |-> <<>>, nav |-> <<>>] }

\* a cites_per_year dict, keys in insertion order
Dict(items) == [kind |-> "dict", items |-> items]
\* a cites_per_year that is no dict (the statistics cannot be computed on it)
NotADict == [kind |-> "None", items |-> <<>>]

Series1 == Dict(<< <<2019, 60>>, <<2020, 50>>, <<2021, 7>> >>)
Series2 == Dict(<< <<2020, 600>>, <<2022, 5>> >>)
EmptySeries == Dict(<<>>)

FullProfile(name, series) ==
    [name |-> name, affiliation |-> "U", interests |-> <<"physics">>,
     citedby |-> 700, citedby5y |-> 70, hindex |-> 9, i10index |-> 8,
     coauthors |-> << [name |-> "C"] >>, cites_per_year |-> series,
     url_picture |-> <<"p", name>>]

\* the dict without one key
Without(d, key) == [k \in (DOMAIN d) \ {key} |-> d[k]]

\* what scholarly.fill may hand back
Profiles ==
    { FullProfile("A", Series1),
      FullProfile("A", Series2),
      Without(FullProfile("B", Series1), "url_picture"),
      Without(FullProfile("A", Series1), "cites_per_year"),
      FullProfile("B", EmptySeries),
      FullProfile("B", NotADict),
      Without(FullProfile("B", Series2), "affiliation"),
      Without(FullProfile("A", Series1), "name") }

Names == {"A", "B"}

\* no author fetched (a dict without keys)
NoAuthor == [k \in {} |-> k]

\* what scholarly.search_author_id / scholarly.fill may raise
ProviderErrors == {"FileNotFoundError", "ConnectionError"}

\* no listing page at hand
NoPage == [authors |-> <<>>, nav |-> <<>>]

(***************************************************************************)
(* The output directory: one optional folder per display name, holding an  *)
(* optional Author_picture.png and an optional Author_data.txt.            *)
(***************************************************************************)
NoFile == [exists |-> FALSE, content |-> <<>>]
File(content) == [exists |-> TRUE, content |-> content]
NoFolder == [exists |-> FALSE, pic |-> NoFile, data |-> NoFile]
EmptyFolder == [exists |-> TRUE, pic |-> NoFile, data |-> NoFile]

EmptyTree == [nm \in Names |-> NoFolder]

(***************************************************************************)
(* Pure helpers of the scraper.                                            *)
(***************************************************************************)
RECURSIVE NextPageLoop(_, _, _)
\* the for loop of next_page over the matches from position k on
NextPageLoop(result, k, next_page_link) ==
    IF k > Len(result) THEN next_page_link
    ELSE NextPageLoop(result, k + 1,
                      IF Contains(result[k], AFTER) THEN result[k] ELSE next_page_link)

\* mutant of NextPageLink: the first match holding 'after' is kept
NextPageLink_First(result) ==
    IF \E k \in 1..Len(result) : Contains(result[k], AFTER)
    THEN result[CHOOSE k \in 1..Len(result) :
                   /\ Contains(result[k], AFTER)
                   /\ \A m \in 1..(k - 1) : ~Contains(result[m], AFTER)]
    ELSE <<>>

\* the match next_page settles on; the empty string when it raises ValueError
NextPageLink(result) == NextPageLoop(result, 1, <<>>)

\* mutant of NextPageRaises: the empty link is not checked
NextPageRaises_Never(result) == FALSE

NextPageRaises(result) == NextPageLink(result) = <<>>

\* the URL next_page returns when it does not raise
next_page(result) ==
    <<NAV_HOST>> \o
    StrReplace(StrReplace(Slice1m3(NextPageLink(result)), ESC_EQ, <<"=">>),
               ESC_AMP, <<"&">>)

\* link.index("user=") raises ValueError
AuthorIdRaises(link) == StrIndex(link, USER_EQ) = 0

get_author_id(link) == Drop(link, StrIndex(link, USER_EQ) - 1 + Len(USER_EQ))

get_co_authors_str(co_authors) ==
    <<Len(co_authors), [k \in 1..Len(co_authors) |-> co_authors[k].name]>>

\* the statistics block of create_profile raises
StatsRaise(author) ==
    \/ "cites_per_year" \notin DOMAIN author
    \/ author.cites_per_year.kind # "dict"

\* the keys create_profile reads to build the list L
DataKeys ==
    {"name", "affiliation", "interests", "citedby", "citedby5y", "hindex",
     "i10index", "coauthors", "cites_per_year"}

\* building L raises KeyError
DataRaises(author) == ~(DataKeys \subseteq DOMAIN author)

\* the list L written by file1.writelines
DataLines(author) ==
    LET vals == DictValues(author.cites_per_year.items) IN
    << <<"Name: ", author.name>>,
       <<"Affiliation: ", author.affiliation>>,
       <<"Interests: ", author.interests>>,
       <<"Cited by: ", author.citedby>>,
       <<"Cited in the last 5 years: ", author.citedby5y>>,
       <<"h-index: ", author.hindex>>,
       <<"i10 index: ", author.i10index>>,
       <<"Co authors", get_co_authors_str(author.coauthors)>>,
       <<"Citations per year: ", author.cites_per_year.items>>,
       <<"Total No. of citations in the first 10 years: ",
         get_num_of_first_10_years_citations(vals)>>,
       <<"Num of citations since 100 until 10 years later: ",
         get_num_of_citations_since_n_citations(vals, Threshold100)>>,
       <<"Num of citations since 500 until 10 years later: ",
         get_num_of_citations_since_n_citations(vals, Threshold500)>> >>

\* list(author["cites_per_year"])[-1] raises IndexError
LastYearRaises(author) == author.cites_per_year.items = <<>>

\* the last line of Author_data.txt
LastLine(author) ==
    LET items == author.cites_per_year.items IN
    <<"Number of years with 0 citations: ", CurrentYear - items[Len(items)][1]>>

\* the output directory before the run: empty, or holding a record of an earlier run
InitialTrees ==
    { EmptyTree,
      [EmptyTree EXCEPT !["A"] =
          [exists |-> TRUE, pic |-> File(<<"p", "A">>),
           data |-> File(Append(DataLines(FullProfile("A", Series1)),
                                LastLine(FullProfile("A", Series1))))]] }

(***************************************************************************)
(* State.                                                                  *)
(***************************************************************************)
VARIABLES
    skip,             \* --skip: [given, value]; not given is Python's None
    pages,            \* --pages
    verbose,          \* --verbose
    pc,               \* where the run stands
    i,                \* loop index of skip_n_pages / load_n_pages
    url,              \* the url the next listing page is fetched from
    soup,             \* the listing page at hand
    profile_links,    \* load_10_researchers: the links of the page
    j,                \* load_10_researchers: position of the current link
    author,           \* create_profile: the fetched profile
    cur_folder_path,  \* create_profile: the author's folder
    fs,               \* the output directory tree
    error,            \* the exception that ended the run, if any
    stdout,           \* sys.stdout: the console, or os.devnull inside HiddenPrints
    fs0,              \* history: the tree when the current/last create_profile began
    ret,              \* history: how the last create_profile ended
    nSkipFetch,       \* history: listing pages fetched by skip_n_pages
    nLoadFetch,       \* history: listing pages fetched by load_n_pages
    dispatched,       \* history: create_profile calls begun on the page at hand
    lastMk,           \* history: <<page, link>> of the last folder created
    citations,        \* aggregator check: the series' values
    threshold,        \* aggregator check: n
    first10,          \* aggregator check: result of the first-10 sum
    sinceN            \* aggregator check: result of the since-n sum

argVars == <<skip, pages, verbose>>
ctlVars == <<pc, i, url, soup, profile_links, j>>
cpVars == <<author, cur_folder_path>>
histVars == <<fs0, ret, nSkipFetch, nLoadFetch, dispatched, lastMk>>
histVarsButRet == <<fs0, nSkipFetch, nLoadFetch, dispatched, lastMk>>
aggVars == <<citations, threshold, first10, sinceN>>
vars == <<argVars, ctlVars, cpVars, fs, error, stdout, histVars, aggVars>>

LabelUrl == <<"label_url">>

NoCall ==
    [value |-> NoValue, at |-> "none", author |-> NoAuthor, folder |-> NoPath,
     link |-> <<>>]

\* Python truth value of the skip argument
Truthy(arg) == arg.given /\ arg.value # 0

ScraperInit ==
    /\ skip \in {[given |-> FALSE, value |-> 0]}
                \cup {[given |-> TRUE, value |-> v] : v \in 0..MaxSkip}
    /\ pages \in 0..MaxPages
    /\ verbose \in BOOLEAN
    /\ pc = "main"
    /\ i = 0
    /\ url = LabelUrl
    /\ soup = NoPage
    /\ profile_links = <<>>
    /\ j = 0
    /\ author = NoAuthor
    /\ cur_folder_path = NoPath
    /\ fs \in InitialTrees
    /\ error = NoError
    /\ stdout = "console"
    /\ fs0 = fs
    /\ ret = NoCall
    /\ nSkipFetch = 0
    /\ nLoadFetch = 0
    /\ dispatched = 0
    /\ lastMk = <<0, 0>>

AggIdle ==
    /\ citations = <<>>
    /\ threshold = 0
    /\ first10 = -1
    /\ sinceN = -1

Init == ScraperInit /\ AggIdle

(***************************************************************************)
(* Entry point and Paginator.                                              *)
(***************************************************************************)
\* the global args.skip read by the verbose branch of main: the script's only
\* call of main passes args.skip as the skip argument
ArgsSkip == skip

\* HiddenPrints.__exit__: the with block of main is left when the run ends,
\* normally or by an exception, and sys.stdout is put back; outside the with
\* block sys.stdout is the console all along
HiddenPrintsExit ==
    stdout' = IF pc' \in {"done", "crashed"} THEN "console" ELSE stdout

\* mutant of MainBranch: the verbose branch never skips
MainBranch_VerboseNeverSkips(v) ==
    IF v
    THEN pc' = "load_n_pages"
    ELSE IF ~Truthy(skip) THEN pc' = "load_n_pages" ELSE pc' = "skip_n_pages"

\* the branch main takes for the verbosity v: the verbose one tests
\* args.skip, the quiet one the skip argument
MainBranch(v) ==
    IF v
    THEN IF ~Truthy(ArgsSkip) THEN pc' = "load_n_pages" ELSE pc' = "skip_n_pages"
    ELSE IF ~Truthy(skip) THEN pc' = "load_n_pages" ELSE pc' = "skip_n_pages"

\* main: the quiet branch runs inside HiddenPrints
Main ==
    /\ pc = "main"
    /\ MainBranch(verbose)
    /\ stdout' = IF verbose THEN stdout ELSE "devnull"
    /\ i' = 0
    /\ UNCHANGED <<url, soup, profile_links, j>>
    /\ UNCHANGED <<argVars, cpVars, fs, error, histVars, aggVars>>

\* one iteration of the loop of skip_n_pages: fetch, next_page
SkipPage ==
    /\ pc = "skip_n_pages"
    /\ i < skip.value
    /\ \E page \in Pages :
        /\ soup' = page
        /\ nSkipFetch' = nSkipFetch + 1
        /\ IF NextPageRaises(page.nav)
           THEN /\ pc' = "crashed"
                /\ error' = "ValueError"
                /\ UNCHANGED <<i, url>>
           ELSE /\ url' = next_page(page.nav)
                /\ i' = i + 1
                /\ UNCHANGED <<pc, error>>
    /\ UNCHANGED <<profile_links, j>>
    /\ UNCHANGED <<argVars, cpVars, fs, fs0, ret, nLoadFetch, dispatched, lastMk, aggVars>>
    /\ HiddenPrintsExit

\* the loop of skip_n_pages is over: load_n_pages(url, k, output_dir)
SkipDone ==
    /\ pc = "skip_n_pages"
    /\ i >= skip.value
    /\ pc' = "load_n_pages"
    /\ i' = 0
    /\ UNCHANGED <<url, soup, profile_links, j>>
    /\ UNCHANGED <<argVars, cpVars, fs, error, histVars, aggVars>>
    /\ HiddenPrintsExit

\* mutant of LoadFetch: a link that stands on the page twice is kept once
LoadFetch_Dedup ==
    /\ pc = "load_n_pages"
    /\ i < pages
    /\ \E page \in Pages :
        /\ soup' = page
        /\ profile_links' =
              SelectSeq([k \in 1..Len(page.authors) |->
                            IF \E m \in 1..(k - 1) : page.authors[m] = page.authors[k]
                            THEN <<>>
                            ELSE <<GOOGLE_SCHOLAR_URL_PREFIX>> \o page.authors[k]],
                        LAMBDA l : l # <<>>)
    /\ j' = 1
    /\ pc' = "load_10_researchers"
    /\ nLoadFetch' = nLoadFetch + 1
    /\ dispatched' = 0
    /\ UNCHANGED <<i, url>>
    /\ UNCHANGED <<argVars, cpVars, fs, error, fs0, ret, nSkipFetch, lastMk, aggVars>>
    /\ HiddenPrintsExit

\* one iteration of the loop of load_n_pages, up to the call of
\* load_10_researchers and the building of its profile_links
LoadFetch ==
    /\ pc = "load_n_pages"
    /\ i < pages
    /\ \E page \in Pages :
        /\ soup' = page
        /\ profile_links' =
              [k \in 1..Len(page.authors) |->
                  <<GOOGLE_SCHOLAR_URL_PREFIX>> \o page.authors[k]]
    /\ j' = 1
    /\ pc' = "load_10_researchers"
    /\ nLoadFetch' = nLoadFetch + 1
    /\ dispatched' = 0
    /\ UNCHANGED <<i, url>>
    /\ UNCHANGED <<argVars, cpVars, fs, error, fs0, ret, nSkipFetch, lastMk, aggVars>>
    /\ HiddenPrintsExit

\* the loop of load_n_pages is over: the run ends normally
LoadDone ==
    /\ pc = "load_n_pages"
    /\ i >= pages
    /\ pc' = "done"
    /\ UNCHANGED <<i, url, soup, profile_links, j>>
    /\ UNCHANGED <<argVars, cpVars, fs, error, histVars, aggVars>>
    /\ HiddenPrintsExit

\* url = next_page(soup) in load_n_pages, after load_10_researchers returned
LoadNextPage ==
    /\ pc = "next_page"
    /\ IF NextPageRaises(soup.nav)
       THEN /\ pc' = "crashed"
            /\ error' = "ValueError"
            /\ UNCHANGED <<i, url, soup, profile_links, j>>
       ELSE /\ url' = next_page(soup.nav)
            /\ i' = i + 1
            /\ pc' = "load_n_pages"
            /\ profile_links' = <<>>
            /\ j' = 0
            /\ UNCHANGED <<soup, error>>
    /\ UNCHANGED <<argVars, cpVars, fs, histVars, aggVars>>
    /\ HiddenPrintsExit

(***************************************************************************)
(* Page Extractor: the dispatch loop of load_10_researchers.               *)
(***************************************************************************)
\* the except clause around create_profile
Caught(e) == e = "FileNotFoundError"

\* create_profile returns v from its step at
Returns(v, at, a, folder) ==
    /\ ret' = [value |-> v, at |-> at, author |-> a, folder |-> folder,
               link |-> profile_links[j]]
    /\ author' = NoAuthor
    /\ cur_folder_path' = NoPath
    /\ j' = j + 1
    /\ pc' = "load_10_researchers"
    /\ UNCHANGED <<i, url, soup, profile_links, error>>

\* create_profile raises e from its step at: load_10_researchers goes on to
\* the next link when its except clause catches e, and the exception leaves
\* load_10_researchers, load_n_pages and main otherwise
Raises(e, at, a, folder) ==
    /\ ret' = [value |-> e, at |-> at, author |-> a, folder |-> folder,
               link |-> profile_links[j]]
    /\ author' = NoAuthor
    /\ cur_folder_path' = NoPath
    /\ IF Caught(e)
       THEN /\ j' = j + 1
            /\ pc' = "load_10_researchers"
            /\ UNCHANGED error
       ELSE /\ pc' = "crashed"
            /\ error' = e
            /\ UNCHANGED j
    /\ UNCHANGED <<i, url, soup, profile_links>>

\* mutant of DispatchDone: the loop may end before the last link
DispatchDone_Early ==
    /\ pc = "load_10_researchers"
    /\ pc' = "next_page"
    /\ UNCHANGED <<i, url, soup, profile_links, j>>
    /\ UNCHANGED <<argVars, cpVars, fs, error, histVars, aggVars>>
    /\ HiddenPrintsExit

\* the for loop of load_10_researchers is over
DispatchDone ==
    /\ pc = "load_10_researchers"
    /\ j > Len(profile_links)
    /\ pc' = "next_page"
    /\ UNCHANGED <<i, url, soup, profile_links, j>>
    /\ UNCHANGED <<argVars, cpVars, fs, error, histVars, aggVars>>
    /\ HiddenPrintsExit

(***************************************************************************)
(* Author Extractor: create_profile, step by step.                         *)
(***************************************************************************)
\* create_profile is called on the link at hand: get_author_id, the two
\* calls of the data provider, and the folder path built from author['name']
FetchAuthor ==
    /\ pc = "load_10_researchers"
    /\ j <= Len(profile_links)
    /\ fs0' = fs
    /\ dispatched' = dispatched + 1
    /\ IF AuthorIdRaises(profile_links[j])
       THEN Raises("ValueError", "fetch", NoAuthor, NoPath)
       ELSE \/ \E e \in ProviderErrors : Raises(e, "fetch", NoAuthor, NoPath)
            \/ \E a \in Profiles :
                  IF "name" \notin DOMAIN a
                  THEN Raises("KeyError", "fetch", a, NoPath)
                  ELSE /\ author' = a
                       /\ cur_folder_path' = a.name
                       /\ pc' = "new_folder"
                       /\ ret' = NoCall
                       /\ UNCHANGED <<i, url, soup, profile_links, j, error>>
    /\ UNCHANGED <<argVars, fs, nSkipFetch, nLoadFetch, lastMk, aggVars>>
    /\ HiddenPrintsExit

\* mutant of NewFolder: an existing folder is a failure like any other
NewFolder_ExistsIsFailure ==
    /\ pc = "new_folder"
    /\ IF fs[cur_folder_path].exists
       THEN /\ Returns("False", "new_folder", author, cur_folder_path)
            /\ UNCHANGED <<fs, lastMk>>
       ELSE \/ /\ fs' = [fs EXCEPT ![cur_folder_path] = EmptyFolder]
               /\ lastMk' = <<nLoadFetch, j>>
               /\ pc' = "picture"
               /\ UNCHANGED <<ret, cpVars, j, error>>
            \/ /\ Returns("False", "new_folder", author, cur_folder_path)
               /\ UNCHANGED <<fs, lastMk>>
    /\ UNCHANGED <<i, url, soup, profile_links>>
    /\ UNCHANGED <<argVars, fs0, nSkipFetch, nLoadFetch, dispatched, aggVars>>
    /\ HiddenPrintsExit

\* new_folder(cur_folder_path) and the test of its result; os.mkdir on an
\* existing folder raises FileExistsError, on a missing one it creates the
\* folder or fails for another reason
NewFolder ==
    /\ pc = "new_folder"
    /\ IF fs[cur_folder_path].exists
       THEN \* FileExistsError: new_folder returns True
            /\ pc' = "picture"
            /\ UNCHANGED <<fs, lastMk, ret, cpVars, j, error>>
       ELSE \/ \* os.mkdir creates the folder
               /\ fs' = [fs EXCEPT ![cur_folder_path] = EmptyFolder]
               /\ lastMk' = <<nLoadFetch, j>>
               /\ pc' = "picture"
               /\ UNCHANGED <<ret, cpVars, j, error>>
            \/ \* os.mkdir raises something else: new_folder returns False
               /\ Returns("False", "new_folder", author, cur_folder_path)
               /\ UNCHANGED <<fs, lastMk>>
    /\ UNCHANGED <<i, url, soup, profile_links>>
    /\ UNCHANGED <<argVars, fs0, nSkipFetch, nLoadFetch, dispatched, aggVars>>
    /\ HiddenPrintsExit

\* mutant of SavePicture: a failed download removes the folder
SavePicture_RemovesFolder ==
    /\ pc = "picture"
    /\ IF "url_picture" \notin DOMAIN author
       THEN /\ pc' = "stats"
            /\ UNCHANGED <<fs, ret, cpVars, j, error>>
       ELSE \/ /\ fs' = [fs EXCEPT ![cur_folder_path].pic = File(author.url_picture)]
               /\ pc' = "stats"
               /\ UNCHANGED <<ret, cpVars, j, error>>
            \/ /\ fs' = [fs EXCEPT ![cur_folder_path] = NoFolder]
               /\ Returns("False", "picture", author, cur_folder_path)
    /\ UNCHANGED <<i, url, soup, profile_links>>
    /\ UNCHANGED <<argVars, histVarsButRet, aggVars>>
    /\ HiddenPrintsExit

\* mutant of SavePicture: a missing url_picture is handled like a failed download
SavePicture_MissingIsFailure ==
    /\ pc = "picture"
    /\ IF "url_picture" \notin DOMAIN author
       THEN /\ Returns("False", "picture", author, cur_folder_path)
            /\ UNCHANGED fs
       ELSE \/ /\ fs' = [fs EXCEPT ![cur_folder_path].pic = File(author.url_picture)]
               /\ pc' = "stats"
               /\ UNCHANGED <<ret, cpVars, j, error>>
            \/ /\ Returns("False", "picture", author, cur_folder_path)
               /\ UNCHANGED fs
    /\ UNCHANGED <<i, url, soup, profile_links>>
    /\ UNCHANGED <<argVars, histVarsButRet, aggVars>>
    /\ HiddenPrintsExit

\* the try block that saves the picture
SavePicture ==
    /\ pc = "picture"
    /\ IF "url_picture" \notin DOMAIN author
       THEN \* KeyError: no picture, go on
            /\ pc' = "stats"
            /\ UNCHANGED <<fs, ret, cpVars, j, error>>
       ELSE \/ \* downloaded and written
               /\ fs' = [fs EXCEPT ![cur_folder_path].pic = File(author.url_picture)]
               /\ pc' = "stats"
               /\ UNCHANGED <<ret, cpVars, j, error>>
            \/ \* requests.get fails: nothing written
               /\ Returns("False", "picture", author, cur_folder_path)
               /\ UNCHANGED fs
            \/ \* the write fails after open(..., "wb") truncated the file
               /\ fs' = [fs EXCEPT ![cur_folder_path].pic = File(<<>>)]
               /\ Returns("False", "picture", author, cur_folder_path)
    /\ UNCHANGED <<i, url, soup, profile_links>>
    /\ UNCHANGED <<argVars, histVarsButRet, aggVars>>
    /\ HiddenPrintsExit

\* mutant of ComputeStats: the folder is not removed
ComputeStats_KeepsFolder ==
    /\ pc = "stats"
    /\ IF StatsRaise(author)
       THEN /\ Returns("False", "stats", author, cur_folder_path)
            /\ UNCHANGED fs
       ELSE /\ pc' = "write"
            /\ UNCHANGED <<fs, ret, cpVars, j, error>>
    /\ UNCHANGED <<i, url, soup, profile_links>>
    /\ UNCHANGED <<argVars, histVarsButRet, aggVars>>
    /\ HiddenPrintsExit

\* the try block that computes the three statistics; rmtree on any exception
ComputeStats ==
    /\ pc = "stats"
    /\ IF StatsRaise(author)
       THEN /\ fs' = [fs EXCEPT ![cur_folder_path] = NoFolder]
            /\ Returns("False", "stats", author, cur_folder_path)
       ELSE /\ pc' = "write"
            /\ UNCHANGED <<fs, ret, cpVars, j, error>>
    /\ UNCHANGED <<i, url, soup, profile_links>>
    /\ UNCHANGED <<argVars, histVarsButRet, aggVars>>
    /\ HiddenPrintsExit

\* Author_data.txt: io.open(..., "w"), the list L, writelines, the last line
SaveData ==
    /\ pc = "write"
    /\ IF DataRaises(author)
       THEN \* KeyError while L is built: the file was opened and is empty
            /\ fs' = [fs EXCEPT ![cur_folder_path].data = File(<<>>)]
            /\ Raises("KeyError", "write", author, cur_folder_path)
       ELSE IF LastYearRaises(author)
       THEN \* IndexError after writelines(L)
            /\ fs' = [fs EXCEPT ![cur_folder_path].data = File(DataLines(author))]
            /\ Raises("IndexError", "write", author, cur_folder_path)
       ELSE /\ fs' = [fs EXCEPT ![cur_folder_path].data =
                          File(Append(DataLines(author), LastLine(author)))]
            /\ Returns("True", "return", author, cur_folder_path)
    /\ UNCHANGED <<argVars, histVarsButRet, aggVars>>
    /\ HiddenPrintsExit

ScraperNext ==
    \/ Main
    \/ SkipPage
    \/ SkipDone
    \/ LoadFetch
    \/ LoadDone
    \/ FetchAuthor
    \/ NewFolder
    \/ SavePicture
    \/ ComputeStats
    \/ SaveData
    \/ DispatchDone
    \/ LoadNextPage

Next == ScraperNext

Spec == Init /\ [][Next]_vars

(***************************************************************************)
(* The Citation Aggregator on its own: a series is drawn value by value,   *)
(* then both functions are applied to it.                                  *)
(***************************************************************************)
CiteVals == {0, 1}

ScraperIdle ==
    /\ skip = [given |-> FALSE, value |-> 0]
    /\ pages = 0
    /\ verbose = FALSE
    /\ pc = "aggregate"
    /\ i = 0
    /\ url = LabelUrl
    /\ soup = NoPage
    /\ profile_links = <<>>
    /\ j = 0
    /\ author = NoAuthor
    /\ cur_folder_path = NoPath
    /\ fs = EmptyTree
    /\ error = NoError
    /\ stdout = "console"
    /\ fs0 = EmptyTree
    /\ ret = NoCall
    /\ nSkipFetch = 0
    /\ nLoadFetch = 0
    /\ dispatched = 0
    /\ lastMk = <<0, 0>>

AggInit ==
    /\ ScraperIdle
    /\ citations = <<>>
    /\ threshold \in 0..MaxThreshold
    /\ first10 = -1
    /\ sinceN = -1

\* one more year of the series
AddYear ==
    /\ pc = "aggregate"
    /\ Len(citations) < MaxSeriesLen
    /\ \E v \in CiteVals : citations' = Append(citations, v)
    /\ UNCHANGED <<threshold, first10, sinceN>>
    /\ UNCHANGED <<argVars, ctlVars, cpVars, fs, error, stdout, histVars>>

\* both aggregators applied to the series
Aggregate ==
    /\ pc = "aggregate"
    /\ first10' = get_num_of_first_10_years_citations(citations)
    /\ sinceN' = get_num_of_citations_since_n_citations(citations, threshold)
    /\ pc' = "aggregated"
    /\ UNCHANGED <<citations, threshold>>
    /\ UNCHANGED <<argVars, i, url, soup, profile_links, j, cpVars, fs, error, stdout,
                   histVars>>

AggNext == AddYear \/ Aggregate

SpecCitations == AggInit /\ [][AggNext]_vars

(***************************************************************************)
(* next_page on its own: load_n_pages stands after the dispatch loop of a  *)
(* page without authors, the matches of the next-page pattern on that page *)
(* are drawn one by one, then url = next_page(soup) runs on them.          *)
(***************************************************************************)
\* a match of the next-page pattern that is no pagination link
MatchOther == <<"'", "/", "h", "o", "m", "e", "'", "\"", " ">>

\* a forward link with repeated escapes and pieces of escapes
MatchAfterNested ==
    <<"'", "/", "a", "f", "t", "e", "r", "\\", "x", "3", "d", "\\", "x", "3",
      "\\", "x", "3", "d", "d", "\\", "x", "2", "6", "\\", "x", "2", "6", "3", "d",
      "'", "\"", " ">>

NavMatches == {MatchAfter, MatchAfter2, MatchAfterNested, MatchBefore, MatchOther}

NavInit ==
    /\ skip = [given |-> FALSE, value |-> 0]
    /\ pages = 1
    /\ verbose \in BOOLEAN
    /\ pc = "next_page"
    /\ i = 0
    /\ url = LabelUrl
    /\ soup = NoPage
    /\ profile_links = <<>>
    /\ j = 1
    /\ author = NoAuthor
    /\ cur_folder_path = NoPath
    /\ fs = EmptyTree
    /\ error = NoError
    /\ stdout = IF verbose THEN "console" ELSE "devnull"
    /\ fs0 = EmptyTree
    /\ ret = NoCall
    /\ nSkipFetch = 0
    /\ nLoadFetch = 1
    /\ dispatched = 0
    /\ lastMk = <<0, 0>>
    /\ AggIdle

\* one more match of the next-page pattern on the page
AddMatch ==
    /\ pc = "next_page"
    /\ Len(soup.nav) < MaxMatches
    /\ \E m \in NavMatches : soup' = [soup EXCEPT !.nav = Append(@, m)]
    /\ UNCHANGED <<pc, i, url, profile_links, j>>
    /\ UNCHANGED <<argVars, cpVars, fs, error, stdout, histVars, aggVars>>

NavNext == AddMatch \/ LoadNextPage

SpecNextPage == NavInit /\ [][NavNext]_vars

(***************************************************************************)
(* Properties.  A create_profile call has ended exactly when ret holds a   *)
(* value; fs0 is then the tree the call started from and fs the tree it    *)
(* left, since nothing but create_profile touches the tree.                *)
(***************************************************************************)
CallEnded == ret.value # NoValue

\* the call got as far as naming the author's folder
Named == CallEnded /\ ret.folder # NoPath

\* the profile of the last call holds a non-empty citation series
SeriesNonEmpty(a) ==
    /\ "cites_per_year" \in DOMAIN a
    /\ a.cites_per_year.kind = "dict"
    /\ a.cites_per_year.items # <<>>

\* C1 as stated: after a create_profile call that started without a folder
\* for the author, the folder exists if and only if the call returned True
\* and the citation series was present and non-empty.
C1_FolderIffSuccess ==
    (Named /\ ~fs0[ret.folder].exists) =>
        (fs[ret.folder].exists <=>
            (ret.value = "True" /\ SeriesNonEmpty(ret.author)))

\* C1 amended: after a create_profile call that started without a folder for
\* the author, the folder is absent exactly when the call ended before the
\* folder step (the tree is then untouched), at the folder creation
\* (new_folder failed) or in the statistics step (the folder was removed); it
\* remains after a failed picture download (False is
\* returned), after an exception while Author_data.txt is written, and after
\* a True return, which only happens with a non-empty series.
C1_FolderIffPastStatistics ==
    /\ (CallEnded /\ ~Named) => (ret.at = "fetch" /\ fs = fs0)
    /\ (Named /\ ~fs0[ret.folder].exists) =>
        /\ fs[ret.folder].exists <=> ret.at \in {"picture", "write", "return"}
        /\ ~fs[ret.folder].exists <=> ret.at \in {"new_folder", "stats"}
        /\ ret.value = "True" =>
              /\ fs[ret.folder].exists
              /\ fs[ret.folder].data.exists
              /\ SeriesNonEmpty(ret.author)

\* C1 witness: a call that started without the folder returned False from the
\* picture step and left the folder behind.
C1_Witness ==
    /\ Named
    /\ ~fs0[ret.folder].exists
    /\ ret.at = "picture"
    /\ ret.value = "False"
    /\ fs[ret.folder].exists

\* C2 as stated: no exception raised inside create_profile ends the run, and
\* when load_10_researchers is through, create_profile has been invoked for
\* every link of the page.
C2_AuthorFailuresCaught ==
    /\ ~(pc = "crashed" /\ CallEnded /\ error = ret.value)
    /\ pc = "next_page" => dispatched = Len(profile_links)

\* the number of pages skip_n_pages is to skip
SkipCount == IF Truthy(skip) THEN skip.value ELSE 0

\* some match of the next-page pattern holds the token 'after'
HasForward(nav) == \E k \in 1..Len(nav) : Contains(nav[k], AFTER)

\* a create_profile call is under way
InCall == pc \in {"new_folder", "picture", "stats", "write"}

C4_NoForwardLinkIsFatal ==
    [][ /\ pc # "crashed"
        /\ (pc = "next_page" /\ ~HasForward(soup.nav)) =>
              (pc' = "crashed" /\ error' = "ValueError" /\ url' = url)
        /\ (pc = "skip_n_pages" /\ nSkipFetch' # nSkipFetch /\ ~HasForward(soup'.nav)) =>
              (pc' = "crashed" /\ error' = "ValueError" /\ url' = url)
      ]_vars

\* C4 witness: the run crashed with ValueError on a loaded page without a
\* forward link, after that page's author was processed.
C4_Witness ==
    /\ pc = "crashed"
    /\ error = "ValueError"
    /\ ~HasForward(soup.nav)
    /\ dispatched = 1
    /\ ret.value = "True"

\* C5 as stated: whenever the fetched profile has no usable citation series,
\* create_profile returns False (so the run goes on with the next author)
\* and no folder of the author remains.
C5_NoSeriesNoFolder ==
    (CallEnded /\ "name" \in DOMAIN ret.author /\ StatsRaise(ret.author)) =>
        /\ ret.value = "False"
        /\ ~fs[ret.author.name].exists

\* C5 amended: when create_profile reaches its statistics step (the folder
\* step succeeded and the picture step did not return False) with a profile
\* that has no usable citation series, that step removes the folder and
\* returns False without writing Author_data.txt, no folder of the author
\* remains, and the run goes on with the next link.
C5_NoSeriesRollsBack ==
    [][ /\ (pc = "stats" /\ StatsRaise(author)) =>
              /\ ret'.value = "False"
              /\ ~fs'[cur_folder_path].exists
              /\ \A nm \in Names \ {cur_folder_path} : fs'[nm] = fs[nm]
              /\ pc' = "load_10_researchers"
              /\ j' = j + 1
              /\ error' = NoError
        /\ (CallEnded' /\ "name" \in DOMAIN ret'.author /\ StatsRaise(ret'.author)
                       /\ ret'.at \notin {"new_folder", "picture"}) =>
              /\ ret'.value = "False"
              /\ ret'.at = "stats"
              /\ ~fs'[ret'.author.name].exists
      ]_vars

\* C5 witness: a folder created by the call was removed again by its
\* statistics step.
C5_Witness ==
    /\ CallEnded
    /\ ret.at = "stats"
    /\ "cites_per_year" \notin DOMAIN ret.author
    /\ ~fs0[ret.folder].exists
    /\ ~fs[ret.folder].exists
    /\ lastMk = <<nLoadFetch, dispatched>>

\* the profile lacks the picture URL and nothing else, with a non-empty series
LacksOnlyPicture(a) ==
    /\ DOMAIN a = DataKeys
    /\ SeriesNonEmpty(a)

\* C6 as stated: for a profile lacking only the picture URL, create_profile
\* returns True, the folder holds Author_data.txt, and the call wrote no
\* Author_picture.png.
C6_NoPictureSucceeds ==
    (CallEnded /\ LacksOnlyPicture(ret.author)) =>
        /\ ret.value = "True"
        /\ fs[ret.author.name].exists
        /\ fs[ret.author.name].data.exists
        /\ fs[ret.author.name].pic = fs0[ret.author.name].pic

\* C6 amended: for a profile lacking only the picture URL, and provided the
\* folder step succeeds (new_folder returns True), create_profile returns
\* True, the folder holds the complete Author_data.txt, and the call wrote
\* no Author_picture.png.
C6_NoPictureSucceedsInFolder ==
    (CallEnded /\ LacksOnlyPicture(ret.author) /\ ret.at # "new_folder") =>
        /\ ret.value = "True"
        /\ fs[ret.author.name].exists
        /\ fs[ret.author.name].data =
              File(Append(DataLines(ret.author), LastLine(ret.author)))
        /\ fs[ret.author.name].pic = fs0[ret.author.name].pic

\* C6 witness: a True return for a profile without picture URL, the folder
\* holding the data file and no picture.
C6_Witness ==
    /\ CallEnded
    /\ LacksOnlyPicture(ret.author)
    /\ ret.value = "True"
    /\ fs[ret.author.name].data.exists
    /\ ~fs[ret.author.name].pic.exists

\* C7 as stated: once a folder holds Author_data.txt, no later step changes
\* that file or removes the folder, and a folder is only ever deleted by the
\* create_profile call that created it.
C7_RecordsNeverTouched ==
    [][ \A nm \in Names :
          /\ (fs[nm].exists /\ fs[nm].data.exists) =>
                (fs'[nm].exists /\ fs'[nm].data = fs[nm].data)
          /\ (fs[nm].exists /\ ~fs'[nm].exists) => ~fs0[nm].exists
      ]_vars

\* <<page, link>> positions in traversal order
Before(a, b) == a[1] < b[1] \/ (a[1] = b[1] /\ a[2] < b[2])

\* C8: a listing page is fetched only when no create_profile call is under
\* way and every link of the page before it was dispatched and its call has
\* ended; a create_profile call starts only when the call for the previous
\* link has ended, for the link right after it; folders are created for the
\* link being dispatched, in traversal order of <<page, link>>.
C8_SequentialInOrder ==
    [][ /\ (nLoadFetch' # nLoadFetch \/ nSkipFetch' # nSkipFetch) =>
              /\ ~InCall
              /\ nLoadFetch > 0 => dispatched = Len(soup.authors)
              /\ (nLoadFetch > 0 /\ dispatched > 0) => CallEnded
        /\ dispatched' = dispatched + 1 =>
              /\ ~InCall
              /\ j = dispatched + 1
              /\ dispatched > 0 => CallEnded
        /\ lastMk' # lastMk =>
              /\ Before(lastMk, lastMk')
              /\ lastMk' = <<nLoadFetch, dispatched>>
      ]_vars

\* C8 witness: the folder created last is that of the second link of the
\* second page.
C8_Witness ==
    /\ lastMk = <<2, 2>>
    /\ nLoadFetch = 2
    /\ dispatched = 2
    /\ \A nm \in Names : fs[nm].exists

RECURSIVE SumSeq(_)
SumSeq(s) == IF s = <<>> THEN 0 ELSE Head(s) + SumSeq(Tail(s))

Min(a, b) == IF a <= b THEN a ELSE b

\* the positions at which the running prefix sum has reached n
ReachPositions(vals, n) ==
    {q \in 1..Len(vals) : SumSeq(SubSeq(vals, 1, q)) >= n}

\* the sum of the at most 10 values right after the first such position
SumAfterThreshold(vals, n) ==
    IF ReachPositions(vals, n) = {} THEN 0
    ELSE LET q == CHOOSE q \in ReachPositions(vals, n) :
                     \A r \in ReachPositions(vals, n) : q <= r
         IN SumSeq(SubSeq(vals, q + 1, Min(q + 10, Len(vals))))

SumFirstTen(vals) == SumSeq(SubSeq(vals, 1, Min(10, Len(vals))))

C10_SumOfFirstTen ==
    pc = "aggregated" =>
        /\ first10 = SumFirstTen(citations)
        /\ Len(citations) < 10 => first10 = SumSeq(citations)
        /\ citations = <<>> => first10 = 0

\* C10 witness: twelve ones give 10.
C10_Witness ==
    /\ pc = "aggregated"
    /\ citations = [k \in 1..12 |-> 1]
    /\ first10 = 10

\* C11: when the profile has a picture URL and the picture step does not get
\* through (the download or the write failed), create_profile returns False
\* from that step: the statistics step is not entered, Author_data.txt is as
\* it was, the folder is still there and no other folder is touched, no
\* exception ends the run, and load_10_researchers goes on with the next
\* link.  After such a return the folder of the call exists and its data
\* file is the one the call found.
C11_PictureFailureKeepsFolder ==
    [][ /\ (pc = "picture" /\ "url_picture" \in DOMAIN author /\ pc' # "stats") =>
              /\ ret' = [value |-> "False", at |-> "picture", author |-> author,
                         folder |-> cur_folder_path, link |-> profile_links[j]]
              /\ fs[cur_folder_path].exists
              /\ fs'[cur_folder_path].exists
              /\ fs'[cur_folder_path].data = fs[cur_folder_path].data
              /\ \A nm \in Names \ {cur_folder_path} : fs'[nm] = fs[nm]
              /\ pc' = "load_10_researchers"
              /\ j' = j + 1
              /\ error' = NoError
              /\ dispatched' = dispatched
        /\ (pc = "picture" /\ "url_picture" \in DOMAIN author /\ pc' = "stats") =>
              fs'[cur_folder_path].pic = File(author.url_picture)
        /\ ret'.at = "picture" =>
              /\ "url_picture" \in DOMAIN ret'.author
              /\ ret'.value = "False"
              /\ fs'[ret'.folder].exists
              /\ fs'[ret'.folder].data = fs0'[ret'.folder].data
      ]_vars

\* C11 witness: create_profile returned False from the picture step after the
\* write failed, the folder is there with the truncated picture, and
\* load_10_researchers has a next link to go on with.
C11_Witness ==
    /\ pc = "load_10_researchers"
    /\ ret.at = "picture"
    /\ ret.value = "False"
    /\ fs[ret.folder].exists
    /\ fs[ret.folder].pic = File(<<>>)
    /\ ~fs[ret.folder].data.exists
    /\ j = 2
    /\ j <= Len(profile_links)

\* C12: a folder that exists already is no failure: new_folder returns True,
\* nothing is changed by it and create_profile goes on to the picture step;
\* a call that started on an existing folder and returned True left the
\* folder with the data file (and the picture, if the profile names one) of
\* this call.  Every other way out of the folder step is a False return of
\* create_profile, on a folder that did not exist, with the whole tree as it
\* was, and load_10_researchers goes on with the next link.
C12_ExistingFolderIsReused ==
    [][ /\ (pc = "new_folder" /\ fs[cur_folder_path].exists) =>
              /\ pc' = "picture"
              /\ fs' = fs
              /\ ret' = NoCall
              /\ UNCHANGED cpVars
        /\ (pc = "new_folder" /\ pc' # "picture") =>
              /\ ~fs[cur_folder_path].exists
              /\ ret' = [value |-> "False", at |-> "new_folder", author |-> author,
                         folder |-> cur_folder_path, link |-> profile_links[j]]
              /\ fs' = fs
              /\ fs' = fs0'
              /\ pc' = "load_10_researchers"
              /\ j' = j + 1
              /\ error' = NoError
        /\ (ret'.value = "True" /\ fs0'[ret'.folder].exists) =>
              /\ fs'[ret'.folder].data =
                    File(Append(DataLines(ret'.author), LastLine(ret'.author)))
              /\ "url_picture" \in DOMAIN ret'.author =>
                    fs'[ret'.folder].pic = File(ret'.author.url_picture)
      ]_vars

\* C12 witness: a call that found the folder with an earlier record returned
\* True and left another data file in it.
C12_Witness ==
    /\ CallEnded
    /\ ret.value = "True"
    /\ fs0[ret.folder].exists
    /\ fs0[ret.folder].data.exists
    /\ fs[ret.folder].data.exists
    /\ fs[ret.folder].data # fs0[ret.folder].data

\* positions of the matches that hold the token 'after' / 'before'
HoldsAfter(m) == Contains(m, AFTER)

AfterPositions(nav) == {k \in 1..Len(nav) : HoldsAfter(nav[k])}

BEFORE == <<"b", "e", "f", "o", "r", "e">>

BeforePositions(nav) == {k \in 1..Len(nav) : Contains(nav[k], BEFORE)}

\* a match without its first character and its last three
Inner(m) == [k \in 1..(Len(m) - 4) |-> m[k + 1]]

RECURSIVE Unescaped(_)
\* a link read from left to right, each \x3d taken as = and each \x26 as &
Unescaped(s) ==
    IF s = <<>> THEN <<>>
    ELSE IF StartsWith(s, ESC_EQ) THEN <<"=">> \o Unescaped(Drop(s, Len(ESC_EQ)))
    ELSE IF StartsWith(s, ESC_AMP) THEN <<"&">> \o Unescaped(Drop(s, Len(ESC_AMP)))
    ELSE <<Head(s)>> \o Unescaped(Tail(s))

\* C13: on a page whose matches hold 'after' in exactly one place and
\* 'before' in another, in either order, the URL next_page returned is the
\* navigation host followed by the 'after' match without its first character
\* and its last three, every \x3d read as = and every \x26 as &; no \x3d and
\* no \x26 is left in it, it is the URL the 'after' match alone would give,
\* and it holds the token 'before' only if the 'after' match does.
C13_OneAfterOneBefore ==
    pc = "load_n_pages" =>
        \A a \in AfterPositions(soup.nav) : \A b \in BeforePositions(soup.nav) :
            (AfterPositions(soup.nav) = {a} /\ b # a) =>
                /\ url = <<NAV_HOST>> \o Unescaped(Inner(soup.nav[a]))
                /\ Head(url) = NAV_HOST
                /\ ~Contains(url, ESC_EQ)
                /\ ~Contains(url, ESC_AMP)
                /\ url = next_page(<<soup.nav[a]>>)
                /\ ~Contains(soup.nav[a], BEFORE) => ~Contains(url, BEFORE)

\* C13 witness: the 'after' match comes first and the 'before' match second,
\* and the URL is the decoded 'after' link.
C13_Witness ==
    /\ pc = "load_n_pages"
    /\ soup.nav = <<MatchAfter, MatchBefore>>
    /\ url = <<NAV_HOST, "/", "a", "f", "t", "e", "r", "=", "1", "&", "s">>

\* C14: a page with k matches of the author pattern gets k links, the k-th
\* being the base URL followed by the k-th href, repeated hrefs included;
\* create_profile is begun once per link, in that order, on that link; and
\* when load_10_researchers is through with the page, k calls were begun.
C14_OneCallPerMatch ==
    [][ /\ nLoadFetch' # nLoadFetch =>
              /\ Len(profile_links') = Len(soup'.authors)
              /\ \A k \in 1..Len(soup'.authors) :
                    profile_links'[k] = <<GOOGLE_SCHOLAR_URL_PREFIX>> \o soup'.authors[k]
              /\ dispatched' = 0
        /\ dispatched' # dispatched =>
              \/ nLoadFetch' # nLoadFetch
              \/ /\ dispatched' = dispatched + 1
                 /\ dispatched' <= Len(soup.authors)
                 /\ j = dispatched'
                 /\ soup' = soup
                 /\ IF InCall'
                    THEN /\ j' = j
                         /\ profile_links'[j'] =
                               <<GOOGLE_SCHOLAR_URL_PREFIX>> \o soup.authors[dispatched']
                    ELSE ret'.link =
                               <<GOOGLE_SCHOLAR_URL_PREFIX>> \o soup.authors[dispatched']
        /\ InCall' =>
              /\ j' = dispatched'
              /\ profile_links' = profile_links
        /\ (InCall /\ ~InCall') =>
              ret'.link = <<GOOGLE_SCHOLAR_URL_PREFIX>> \o soup.authors[dispatched]
        /\ pc' = "next_page" => dispatched' = Len(soup'.authors)
      ]_vars

\* C14 witness: on the page that holds the same href twice,
\* load_10_researchers is through after two calls, the second one on the
\* repeated link.
C14_Witness ==
    /\ pc = "next_page"
    /\ soup.authors = <<HrefU1, HrefU1>>
    /\ dispatched = 2
    /\ CallEnded
    /\ ret.link = <<GOOGLE_SCHOLAR_URL_PREFIX>> \o HrefU1

\* the last position of a non-empty set of positions
LastOf(positions) == CHOOSE k \in positions : \A m \in positions : m <= k

\* C16: when one or several matches hold 'after', the URL next_page returned
\* is built from the last of them in document order (host, then the match
\* without its first character and its last three, escapes decoded), and it
\* is the URL the page would give with every match without 'after' taken
\* out; next_page raised exactly when no match holds 'after'.
C16_LastAfterMatchWins ==
    /\ pc = "load_n_pages" =>
          /\ AfterPositions(soup.nav) # {}
          /\ url = <<NAV_HOST>> \o
                       Unescaped(Inner(soup.nav[LastOf(AfterPositions(soup.nav))]))
          /\ url = next_page(SelectSeq(soup.nav, HoldsAfter))
          /\ NextPageLink(soup.nav) = soup.nav[LastOf(AfterPositions(soup.nav))]
    /\ pc = "crashed" =>
          /\ AfterPositions(soup.nav) = {}
          /\ error = "ValueError"
          /\ url = LabelUrl

\* C16 witness: two matches hold 'after', a 'before' match follows them, and
\* the URL is the one of the second 'after' match.
C16_Witness ==
    /\ pc = "load_n_pages"
    /\ soup.nav = <<MatchAfter2, MatchAfter, MatchBefore>>
    /\ url = <<NAV_HOST, "/", "a", "f", "t", "e", "r", "=", "1", "&", "s">>

\* the run is over, normally or by an exception
RunOver == pc \in {"done", "crashed"}

\* C15 as stated: the next-page link is resolved on every fetched page, the
\* last one included: a run that ended normally fetched its S+N pages and
\* resolved the forward link of the last one; the fatal error on a loaded
\* page comes with every author of that page dispatched; and a run whose
\* N-th load page has no forward link dispatches every author of that page
\* and ends with the fatal pagination error.
C15_LastPageIsFatalAfterItsAuthors ==
    /\ (pc = "done" /\ nSkipFetch + nLoadFetch > 0) =>
          /\ nSkipFetch = SkipCount
          /\ nLoadFetch = pages
          /\ HasForward(soup.nav)
          /\ url = next_page(soup.nav)
    /\ (pc = "crashed" /\ error = "ValueError" /\ nLoadFetch > 0) =>
          /\ ~HasForward(soup.nav)
          /\ dispatched = Len(soup.authors)
    /\ (RunOver /\ pages > 0 /\ nLoadFetch = pages /\ ~HasForward(soup.nav)) =>
          /\ pc = "crashed"
          /\ error = "ValueError"
          /\ dispatched = Len(soup.authors)

=============================================================================
